---------------------------- MODULE Spec2Model ----------------------------
(***************************************************************************)
(* Model of package version (src/unnamed/part_002): New, Parse, Less,      *)
(* String and the helpers validID, less, numericLess, splitVersionString   *)
(* and parseNumberString.                                                  *)
(*                                                                         *)
(* A Go string is a sequence of one-character strings; Ord gives the byte  *)
(* value of a character, so that the range tests of validID and the        *)
(* byte-wise string comparison of less are computed as the code computes   *)
(* them.  Go's int is 64 bits wide; every number the bounded inputs can    *)
(* spell has fewer than 10 digits, so the range error of strconv.Atoi and  *)
(* integer overflow are out of reach of this model.                        *)
(***************************************************************************)
EXTENDS Integers, Sequences, FiniteSets, TLC

VARIABLES
    pc,        \* position of the calling program
    token,     \* validID: argument id
    numeric,   \* validID: argument numeric
    out,       \* validID: result
    raw,       \* Parse: argument vsnstr
    result,    \* Parse: result [err, v]
    inA,       \* New: arguments of the first version
    inB,       \* New: arguments of the second version
    inC,       \* New: arguments of the third version
    a,         \* first version
    b,         \* second version
    c,         \* third version
    lt,        \* results of the calls of Less
    str,       \* result of String
    reparsed   \* result of Parse(String(a))

vars == <<pc, token, numeric, out, raw, result, inA, inB, inC, a, b, c, lt,
          str, reparsed>>

\* The absent value: no version, no result yet.
Nil == [nil |-> TRUE]

-----------------------------------------------------------------------------
(* Bounds of the model. *)

MaxTokLen == 3     \* longest identifier handed to validID alone
MaxRawLen == 7     \* longest string handed to Parse
MaxPre    == 2     \* most pre-release tokens of a version that is compared
MaxMeta   == 1     \* most metadata tokens of a version that is compared
MaxIds    == 2     \* most tokens handed to New before rendering
MaxNum    == 1     \* largest major, minor, patch handed to New before rendering

-----------------------------------------------------------------------------
(* Characters and strings. *)

\* The byte value of a character (ASCII).
Ord(ch) ==
    CASE ch = "!" -> 33 [] ch = "+" -> 43 [] ch = "-" -> 45 [] ch = "." -> 46
      [] ch = "0" -> 48 [] ch = "1" -> 49 [] ch = "2" -> 50 [] ch = "3" -> 51
      [] ch = "4" -> 52 [] ch = "5" -> 53 [] ch = "6" -> 54 [] ch = "7" -> 55
      [] ch = "8" -> 56 [] ch = "9" -> 57 [] ch = "A" -> 65 [] ch = "Z" -> 90
      [] ch = "a" -> 97 [] ch = "b" -> 98 [] ch = "z" -> 122

\* All strings over alphabet of length at most n.
StringsUpTo(alphabet, n) == UNION {[1..k -> alphabet] : k \in 0..n}

\* All sequences over S of length at most n.
SeqsUpTo(S, n) == UNION {[1..k -> S] : k \in 0..n}

\* Go's s < t on strings: byte-wise lexicographic.
RECURSIVE StrLess(_, _)
StrLess(s, t) ==
    IF Len(t) = 0 THEN FALSE
    ELSE IF Len(s) = 0 THEN TRUE
    ELSE IF Ord(s[1]) < Ord(t[1]) THEN TRUE
    ELSE IF Ord(s[1]) > Ord(t[1]) THEN FALSE
    ELSE StrLess(Tail(s), Tail(t))

\* Index of the first occurrence of character sep in s, 0 if there is none.
RECURSIVE IndexFrom(_, _, _)
IndexFrom(s, sep, i) ==
    IF i > Len(s) THEN 0
    ELSE IF s[i] = sep THEN i
    ELSE IndexFrom(s, sep, i + 1)

Index(s, sep) == IndexFrom(s, sep, 1)

\* strings.SplitN(s, sep, 2) for a one-character sep.
SplitN2(s, sep) ==
    LET i == Index(s, sep) IN
    IF i = 0 THEN <<s>>
    ELSE <<SubSeq(s, 1, i - 1), SubSeq(s, i + 1, Len(s))>>

\* strings.Split(s, sep) for a one-character sep.
RECURSIVE Split(_, _)
Split(s, sep) ==
    LET i == Index(s, sep) IN
    IF i = 0 THEN <<s>>
    ELSE <<SubSeq(s, 1, i - 1)>> \o Split(SubSeq(s, i + 1, Len(s)), sep)

\* strings.Join(elems, sep).
RECURSIVE Join(_, _)
Join(elems, sep) ==
    IF Len(elems) = 0 THEN <<>>
    ELSE IF Len(elems) = 1 THEN elems[1]
    ELSE elems[1] \o sep \o Join(Tail(elems), sep)

IsDigitByte(ch) == Ord(ch) >= Ord("0") /\ Ord(ch) <= Ord("9")

\* The value of a string of decimal digits, accumulated left to right.
RECURSIVE DigitsValue(_, _)
DigitsValue(s, n) ==
    IF Len(s) = 0 THEN n
    ELSE DigitsValue(Tail(s), n * 10 + (Ord(s[1]) - Ord("0")))

\* strconv.Atoi: an optional sign, then one or more decimal digits.
Atoi(s) ==
    IF Len(s) = 0 THEN [ok |-> FALSE, n |-> 0]
    ELSE LET signed == s[1] = "-" \/ s[1] = "+"
             body   == IF signed THEN Tail(s) ELSE s
         IN  IF Len(body) < 1 THEN [ok |-> FALSE, n |-> 0]
             ELSE IF \E i \in 1..Len(body) : ~IsDigitByte(body[i])
                  THEN [ok |-> FALSE, n |-> 0]
             ELSE [ok |-> TRUE,
                   n  |-> IF s[1] = "-" THEN 0 - DigitsValue(body, 0)
                          ELSE DigitsValue(body, 0)]

DigitChar(d) == <<"0", "1", "2", "3", "4", "5", "6", "7", "8", "9">>[d + 1]

\* fmt.Sprintf("%d", n) for n >= 0.
RECURSIVE FormatInt(_)
FormatInt(n) ==
    IF n < 10 THEN <<DigitChar(n)>>
    ELSE FormatInt(n \div 10) \o <<DigitChar(n % 10)>>

-----------------------------------------------------------------------------
(* The program: package version. *)

\* const Metadata = "+"
Metadata == <<"+">>

\* The error code of every failure of Parse.
ErrIllegalVersionFormat == "ErrIllegalVersionFormat"

NoError == "nil error"

\* validID, the loop over the runes of id: what is kept, and what was seen.
RECURSIVE validIDScan(_, _, _, _, _, _)
validIDScan(id, i, kept, letter, digit, hyphen) ==
    IF i > Len(id)
    THEN [out |-> kept, letter |-> letter, digit |-> digit, hyphen |-> hyphen]
    ELSE LET r == id[i] IN
         CASE Ord(r) >= Ord("a") /\ Ord(r) <= Ord("z") ->
                validIDScan(id, i + 1, Append(kept, r), TRUE, digit, hyphen)
           [] Ord(r) >= Ord("A") /\ Ord(r) <= Ord("Z") ->
                validIDScan(id, i + 1, Append(kept, r), TRUE, digit, hyphen)
           [] Ord(r) >= Ord("0") /\ Ord(r) <= Ord("9") ->
                validIDScan(id, i + 1, Append(kept, r), letter, TRUE, hyphen)
           [] r = "-" ->
                validIDScan(id, i + 1, Append(kept, r), letter, digit, TRUE)
           [] OTHER ->
                validIDScan(id, i + 1, kept, letter, digit, hyphen)

\* validID, the loop that removes leading zeros.
RECURSIVE stripLeadingZeros(_)
stripLeadingZeros(s) ==
    IF Len(s) > 0 /\ s[1] = "0" THEN stripLeadingZeros(Tail(s)) ELSE s

\* A validID that removes leading zeros whether or not numeric is set.
validID_ignoresNumeric(id, numeric_) ==
    LET sc == validIDScan(id, 1, <<>>, FALSE, FALSE, FALSE) IN
    IF sc.digit /\ ~sc.letter /\ ~sc.hyphen
    THEN LET z == stripLeadingZeros(sc.out) IN
         IF Len(z) = 0 THEN <<"0">> ELSE z
    ELSE sc.out

\* validID reduces the passed identifier to a valid one.
validID(id, numeric_) ==
    LET sc == validIDScan(id, 1, <<>>, FALSE, FALSE, FALSE) IN
    IF numeric_ /\ sc.digit /\ ~sc.letter /\ ~sc.hyphen
    THEN LET z == stripLeadingZeros(sc.out) IN
         IF Len(z) = 0 THEN <<"0">> ELSE z
    ELSE sc.out

\* New, the loop over prmds.
RECURSIVE NewLoop(_, _, _, _, _)
NewLoop(prmds, i, isPR, preRelease, metadata) ==
    IF i > Len(prmds)
    THEN [preRelease |-> preRelease, metadata |-> metadata]
    ELSE IF isPR
         THEN IF prmds[i] = Metadata
              THEN NewLoop(prmds, i + 1, FALSE, preRelease, metadata)
              ELSE NewLoop(prmds, i + 1, isPR,
                           Append(preRelease, validID(prmds[i], TRUE)), metadata)
         ELSE NewLoop(prmds, i + 1, isPR, preRelease,
                      Append(metadata, validID(prmds[i], FALSE)))

\* New returns a version; negative numbers become 0.
New(major, minor, patch, prmds) ==
    LET ids == NewLoop(prmds, 1, TRUE, <<>>, <<>>) IN
    [major      |-> IF major < 0 THEN 0 ELSE major,
     minor      |-> IF minor < 0 THEN 0 ELSE minor,
     patch      |-> IF patch < 0 THEN 0 ELSE patch,
     preRelease |-> ids.preRelease,
     metadata   |-> ids.metadata]

\* (v *vsn) PreRelease
PreRelease(v) == Join(v.preRelease, <<".">>)

\* (v *vsn) Metadata
MetadataOf(v) == Join(v.metadata, <<".">>)

\* (v *vsn) String
String(v) ==
    LET vs == FormatInt(v.major) \o <<".">> \o FormatInt(v.minor) \o <<".">>
              \o FormatInt(v.patch)
        vp == IF Len(v.preRelease) > 0 THEN vs \o <<"-">> \o PreRelease(v) ELSE vs
    IN  IF Len(v.metadata) > 0 THEN vp \o Metadata \o MetadataOf(v) ELSE vp

\* numericLess tries to convert x and y into ints and compares them.
numericLess(x, y) ==
    LET an == Atoi(x)
        bn == Atoi(y)
    IN  IF ~an.ok THEN [nl |-> FALSE, ok |-> FALSE]
        ELSE IF ~bn.ok THEN [nl |-> FALSE, ok |-> FALSE]
        ELSE [nl |-> an.n < bn.n, ok |-> TRUE]

\* less, from position i on.
RECURSIVE lessFrom(_, _, _)
lessFrom(x, y, i) ==
    IF i <= Len(x) /\ i <= Len(y)
    THEN LET r == numericLess(x[i], y[i]) IN
         CASE r.ok -> r.nl
           [] StrLess(y[i], x[i]) -> FALSE
           [] StrLess(x[i], y[i]) -> TRUE
           [] OTHER -> lessFrom(x, y, i + 1)
    ELSE Len(x) > Len(y)

\* less compares two string slices.
less(x, y) == lessFrom(x, y, 1)

\* A Less that goes on to the metadata when the pre-releases do not decide.
Less_readsMetadata(v, cv) ==
    IF v.major < cv.major THEN TRUE
    ELSE IF v.major > cv.major THEN FALSE
    ELSE IF v.minor < cv.minor THEN TRUE
    ELSE IF v.minor > cv.minor THEN FALSE
    ELSE IF v.patch < cv.patch THEN TRUE
    ELSE IF v.patch > cv.patch THEN FALSE
    ELSE LET cvprs == PreRelease(cv)
             cvpr  == IF Len(cvprs) > 0 THEN Split(cvprs, ".") ELSE <<>>
         IN  less(v.preRelease, cvpr) \/ less(v.metadata, cv.metadata)

\* (v *vsn) Less
Less(v, cv) ==
    IF v.major < cv.major THEN TRUE
    ELSE IF v.major > cv.major THEN FALSE
    ELSE IF v.minor < cv.minor THEN TRUE
    ELSE IF v.minor > cv.minor THEN FALSE
    ELSE IF v.patch < cv.patch THEN TRUE
    ELSE IF v.patch > cv.patch THEN FALSE
    ELSE LET cvprs == PreRelease(cv)
             cvpr  == IF Len(cvprs) > 0 THEN Split(cvprs, ".") ELSE <<>>
         IN  less(v.preRelease, cvpr)

\* A splitVersionString that looks for "-" before it looks for "+".
splitVersionString_hyphenFirst(vsnstr) ==
    LET nmXpm == SplitN2(vsnstr, "-")
        nXm   == SplitN2(nmXpm[1], "+")
        pXm   == IF Len(nmXpm) = 2 THEN SplitN2(nmXpm[2], "+") ELSE << <<>> >>
    IN  [err  |-> NoError,
         strs |-> <<nXm[1], pXm[1],
                    IF Len(nXm) = 2 THEN nXm[2]
                    ELSE IF Len(pXm) = 2 THEN pXm[2] ELSE <<>> >>]

\* splitVersionString separates numbers, pre-release and metadata.
splitVersionString(vsnstr) ==
    LET npXm == SplitN2(vsnstr, "+")
        nXp  == SplitN2(npXm[1], "-")
    IN  CASE Len(npXm) = 1 /\ Len(nXp) = 1 ->
               [err |-> NoError, strs |-> <<nXp[1], <<>>, <<>> >>]
          [] Len(npXm) = 1 /\ Len(nXp) = 2 ->
               [err |-> NoError, strs |-> <<nXp[1], nXp[2], <<>> >>]
          [] Len(npXm) = 2 /\ Len(nXp) = 1 ->
               [err |-> NoError, strs |-> <<nXp[1], <<>>, npXm[2]>>]
          [] Len(npXm) = 2 /\ Len(nXp) = 2 ->
               [err |-> NoError, strs |-> <<nXp[1], nXp[2], npXm[2]>>]
          [] OTHER ->
               [err |-> ErrIllegalVersionFormat, strs |-> Nil]

\* parseNumberString, the loop over the components.
RECURSIVE parseNumberLoop(_, _, _)
parseNumberLoop(nstrs, i, vsn) ==
    IF i > Len(nstrs) THEN [err |-> NoError, nums |-> vsn]
    ELSE LET num == Atoi(nstrs[i]) IN
         IF ~num.ok THEN [err |-> ErrIllegalVersionFormat, nums |-> Nil]
         ELSE IF num.n < 0 THEN [err |-> ErrIllegalVersionFormat, nums |-> Nil]
         ELSE parseNumberLoop(nstrs, i + 1, [vsn EXCEPT ![i] = num.n])

\* A parseNumberString that does not look at the number of components.
parseNumberString_anyCount(nstr) ==
    LET nstrs == Split(nstr, ".") IN
    parseNumberLoop(SubSeq(nstrs, 1, IF Len(nstrs) > 3 THEN 3 ELSE Len(nstrs)),
                    1, <<1, 0, 0>>)

\* parseNumberString retrieves major, minor and patch.
parseNumberString(nstr) ==
    LET nstrs == Split(nstr, ".") IN
    IF Len(nstrs) < 1 \/ Len(nstrs) > 3
    THEN [err |-> ErrIllegalVersionFormat, nums |-> Nil]
    ELSE parseNumberLoop(nstrs, 1, <<1, 0, 0>>)

\* Parse retrieves a version out of a string.
Parse(vsnstr) ==
    LET npmstrs == splitVersionString(vsnstr) IN
    IF npmstrs.err # NoError THEN [err |-> npmstrs.err, v |-> Nil]
    ELSE LET nums == parseNumberString(npmstrs.strs[1]) IN
         IF nums.err # NoError THEN [err |-> nums.err, v |-> Nil]
         ELSE LET pr    == IF npmstrs.strs[2] # <<>>
                           THEN Split(npmstrs.strs[2], ".") ELSE <<>>
                  prmds == IF npmstrs.strs[3] # <<>>
                           THEN pr \o <<Metadata>> \o Split(npmstrs.strs[3], ".")
                           ELSE pr
              IN  [err |-> NoError,
                   v   |-> New(nums.nums[1], nums.nums[2], nums.nums[3], prmds)]

-----------------------------------------------------------------------------
(* Inputs. *)

\* Characters of the identifiers handed to validID alone.
SanAlphabet == {"0", "1", "a", "A", "-", ".", "!"}

\* Characters of the strings handed to Parse.
ParseAlphabet == {"0", "1", "a", ".", "-", "+"}

\* Pre-release and metadata tokens of the versions that are compared.
PreTokens == {<<"!">>, <<"1">>, <<"2">>, <<"a">>}

\* Those of them that validID does not reduce to the empty string.
LastingPreTokens == {<<"1">>, <<"2">>, <<"a">>}

MetaTokens == {<<"b">>}

\* Numbers of the first version that is compared; the second has 1.1.1.
OrderNums == {<<0, 1, 1>>, <<1, 0, 1>>, <<1, 1, 0>>, <<1, 1, 1>>,
              <<1, 1, 2>>, <<1, 2, 1>>, <<2, 1, 1>>}

\* The list New takes: the pre-release tokens, then "+" and the metadata tokens.
Prmds(pre, meta) == IF meta = <<>> THEN pre ELSE pre \o <<Metadata>> \o meta

OrderPrmds(tokens) ==
    {Prmds(p, m) : p \in SeqsUpTo(tokens, MaxPre),
                   m \in SeqsUpTo(MetaTokens, MaxMeta)}

\* Tokens of the three versions whose comparisons are chained.
TransTokens == StringsUpTo({"0", "1", "2", "a"}, 2) \ {<<>>}

\* Tokens handed to New before rendering.
RoundTripTokens == StringsUpTo({"0", "1", "a", "-", "!"}, 2) \cup {Metadata}

NewArgs(major, minor, patch, prmds) ==
    [major |-> major, minor |-> minor, patch |-> patch, prmds |-> prmds]

NewOf(in) == New(in.major, in.minor, in.patch, in.prmds)

-----------------------------------------------------------------------------
(* validID alone. *)

InitSanitize ==
    /\ pc = "validID"
    /\ \E k \in 0..MaxTokLen : token \in [1..k -> SanAlphabet]
    /\ numeric \in BOOLEAN
    /\ out = Nil
    /\ raw = Nil /\ result = Nil
    /\ inA = Nil /\ inB = Nil /\ inC = Nil
    /\ a = Nil /\ b = Nil /\ c = Nil /\ lt = Nil
    /\ str = Nil /\ reparsed = Nil

CallValidID ==
    /\ pc = "validID"
    /\ out' = validID(token, numeric)
    /\ pc' = "done"
    /\ UNCHANGED <<token, numeric, raw, result, inA, inB, inC, a, b, c, lt,
                   str, reparsed>>

NextSanitize == CallValidID

SpecSanitize == InitSanitize /\ [][NextSanitize]_vars

-----------------------------------------------------------------------------
(* Parse alone. *)

InitParse ==
    /\ pc = "Parse"
    /\ \E k \in 0..MaxRawLen : raw \in [1..k -> ParseAlphabet]
    /\ result = Nil
    /\ token = Nil /\ numeric = Nil /\ out = Nil
    /\ inA = Nil /\ inB = Nil /\ inC = Nil
    /\ a = Nil /\ b = Nil /\ c = Nil /\ lt = Nil
    /\ str = Nil /\ reparsed = Nil

CallParse ==
    /\ pc = "Parse"
    /\ result' = Parse(raw)
    /\ pc' = "done"
    /\ UNCHANGED <<token, numeric, out, raw, inA, inB, inC, a, b, c, lt,
                   str, reparsed>>

NextParse == CallParse

SpecParse == InitParse /\ [][NextParse]_vars

-----------------------------------------------------------------------------
(* New, then Less: two versions, or three. *)

InitOrderOver(tokens) ==
    /\ pc = "New"
    /\ \E n \in OrderNums : \E ids \in OrderPrmds(tokens) :
           inA = NewArgs(n[1], n[2], n[3], ids)
    /\ \E ids \in OrderPrmds(tokens) : inB = NewArgs(1, 1, 1, ids)
    /\ inC = Nil
    /\ a = Nil /\ b = Nil /\ c = Nil /\ lt = Nil
    /\ token = Nil /\ numeric = Nil /\ out = Nil
    /\ raw = Nil /\ result = Nil
    /\ str = Nil /\ reparsed = Nil

InitTrans ==
    /\ pc = "New"
    /\ \E m \in 0..1 : \E t \in SeqsUpTo(TransTokens, 1) :
           inA = NewArgs(m, 0, 0, t)
    /\ \E t \in SeqsUpTo(TransTokens, 1) : inB = NewArgs(1, 0, 0, t)
    /\ \E m \in 1..2 : \E t \in SeqsUpTo(TransTokens, 1) :
           inC = NewArgs(m, 0, 0, t)
    /\ a = Nil /\ b = Nil /\ c = Nil /\ lt = Nil
    /\ token = Nil /\ numeric = Nil /\ out = Nil
    /\ raw = Nil /\ result = Nil
    /\ str = Nil /\ reparsed = Nil

InitOrder == InitOrderOver(PreTokens)

InitOrderLasting == InitOrderOver(LastingPreTokens)

\* The caller constructs the versions it is going to compare.
CallNew ==
    /\ pc = "New"
    /\ a' = NewOf(inA)
    /\ b' = NewOf(inB)
    /\ c' = IF inC = Nil THEN Nil ELSE NewOf(inC)
    /\ pc' = "Less"
    /\ UNCHANGED <<token, numeric, out, raw, result, inA, inB, inC, lt, str,
                   reparsed>>

\* The caller compares them.
CallLess ==
    /\ pc = "Less"
    /\ lt' = [ab |-> Less(a, b), ba |-> Less(b, a),
              aa |-> Less(a, a), bb |-> Less(b, b),
              bc |-> IF c = Nil THEN Nil ELSE Less(b, c),
              ac |-> IF c = Nil THEN Nil ELSE Less(a, c)]
    /\ pc' = "done"
    /\ UNCHANGED <<token, numeric, out, raw, result, inA, inB, inC, a, b, c,
                   str, reparsed>>

NextOrder == CallNew \/ CallLess

SpecOrder == InitOrder /\ [][NextOrder]_vars

SpecOrderLasting == InitOrderLasting /\ [][NextOrder]_vars

SpecTrans == InitTrans /\ [][NextOrder]_vars

-----------------------------------------------------------------------------
(* New, then String, then Parse of what String returned. *)

InitRoundTrip ==
    /\ pc = "New"
    /\ \E ma \in 0..MaxNum : \E mi \in 0..MaxNum : \E pa \in 0..MaxNum :
       \E ids \in SeqsUpTo(RoundTripTokens, MaxIds) :
           inA = NewArgs(ma, mi, pa, ids)
    /\ inB = Nil /\ inC = Nil
    /\ a = Nil /\ b = Nil /\ c = Nil /\ lt = Nil
    /\ token = Nil /\ numeric = Nil /\ out = Nil
    /\ raw = Nil /\ result = Nil
    /\ str = Nil /\ reparsed = Nil

CallNewOne ==
    /\ pc = "New"
    /\ a' = NewOf(inA)
    /\ pc' = "String"
    /\ UNCHANGED <<token, numeric, out, raw, result, inA, inB, inC, b, c, lt,
                   str, reparsed>>

CallString ==
    /\ pc = "String"
    /\ str' = String(a)
    /\ pc' = "Parse"
    /\ UNCHANGED <<token, numeric, out, raw, result, inA, inB, inC, a, b, c,
                   lt, reparsed>>

CallParseRendered ==
    /\ pc = "Parse"
    /\ reparsed' = Parse(str)
    /\ pc' = "done"
    /\ UNCHANGED <<token, numeric, out, raw, result, inA, inB, inC, a, b, c,
                   lt, str>>

NextRoundTrip == CallNewOne \/ CallString \/ CallParseRendered

SpecRoundTrip == InitRoundTrip /\ [][NextRoundTrip]_vars

-----------------------------------------------------------------------------
(* What the claims speak of. *)

AsciiLetters == {"A", "Z", "a", "b", "z"}

AsciiDigits == {"0", "1", "2", "3", "4", "5", "6", "7", "8", "9"}

IsAllowedChar(ch) == ch \in AsciiLetters \cup AsciiDigits \cup {"-"}

\* The characters of tok that are letters, digits or hyphens, in order.
Retained(tok) == SelectSeq(tok, IsAllowedChar)

AllDigits(s) == \A i \in 1..Len(s) : s[i] \in AsciiDigits

\* r is kept without its leading zeros, and is "0" where kept is all zeros.
IsZeroStripped(r, kept) ==
    /\ Len(r) >= 1
    /\ r[1] = "0" => r = <<"0">>
    /\ \E k \in 0..(Len(kept) - 1) :
          /\ \A i \in 1..k : kept[i] = "0"
          /\ r = SubSeq(kept, k + 1, Len(kept))

WellFormedId(id) == Len(id) >= 1 /\ \A i \in 1..Len(id) : IsAllowedChar(id[i])

WellFormedVersion(v) ==
    /\ \A i \in 1..Len(v.preRelease) : WellFormedId(v.preRelease[i])
    /\ \A i \in 1..Len(v.metadata) : WellFormedId(v.metadata[i])

\* The text before the first "-" or "+", whichever comes first.
NumericSegment(s) ==
    LET cut == {i \in 1..Len(s) : s[i] = "-" \/ s[i] = "+"} IN
    IF cut = {} THEN s
    ELSE SubSeq(s, 1, (CHOOSE i \in cut : \A j \in cut : i <= j) - 1)

\* The text after the first "+".
MetadataSegment(s) ==
    LET p == Index(s, "+") IN
    IF p = 0 THEN <<>> ELSE SubSeq(s, p + 1, Len(s))

\* The text between the first "-" and the first "+", if the "-" comes first.
PreReleaseSegment(s) ==
    LET p    == Index(s, "+")
        head == IF p = 0 THEN s ELSE SubSeq(s, 1, p - 1)
        h    == Index(head, "-")
    IN  IF h = 0 THEN <<>> ELSE SubSeq(head, h + 1, Len(head))

IsNonNegativeInteger(s) == Len(s) >= 1 /\ AllDigits(s)

ValidNumericSegment(seg) ==
    LET comps == Split(seg, ".") IN
    /\ Len(comps) \in 1..3
    /\ \A i \in 1..Len(comps) : IsNonNegativeInteger(comps[i])

TokensOf(seg) == IF seg = <<>> THEN <<>> ELSE Split(seg, ".")

\* The numbers a numeric segment spells, 1.0.0 where they are left out.
NumbersOf(seg) ==
    LET comps == Split(seg, ".")
        num(i, d) == IF i <= Len(comps) THEN DigitsValue(comps[i], 0) ELSE d
    IN  <<num(1, 1), num(2, 0), num(3, 0)>>

SameNumbers(v, w) ==
    v.major = w.major /\ v.minor = w.minor /\ v.patch = w.patch

\* x and y agree at every position both have.
AgreeOverShorter(x, y) ==
    \A i \in 1..Len(x) : i <= Len(y) => x[i] = y[i]

\* What a position with different elements decides.
DecidesLess(x, y) ==
    IF Atoi(x).ok /\ Atoi(y).ok THEN Atoi(x).n < Atoi(y).n ELSE StrLess(x, y)

\* Metadata sequences a version may carry instead of its own.
MetaVariants == {<<>>, << <<"1">> >>, << <<"a">>, <<"b">> >>}

-----------------------------------------------------------------------------
(* The claims. *)

\* C1: Less is irreflexive: no version made by New is less than itself,
\* whatever its tokens, those that validID reduces to "" included.
C1_LessIrreflexive ==
    pc = "done" => ~lt.aa /\ ~lt.bb

\* C2: Less is transitive: whenever a is less than b and b is less than c,
\* a is less than c, also where numeric and alphanumeric identifiers mix.
C2_LessTransitive ==
    pc = "done" => (lt.ab /\ lt.bc => lt.ac)

\* C3: Parse(String(New(ma, mi, pa, ids))) succeeds and returns a version with
\* the numbers, the pre-release and the metadata of New(ma, mi, pa, ids).
C3_RoundTrip ==
    pc = "done" => reparsed.err = NoError /\ reparsed.v = a

\* C4: every pre-release and metadata identifier of a version made by New or
\* by a successful Parse is non-empty and made of letters, digits and hyphens.
C4_IdentifiersWellFormed ==
    /\ a # Nil => WellFormedVersion(a)
    /\ (reparsed # Nil /\ reparsed.v # Nil) => WellFormedVersion(reparsed.v)

\* C5: Parse fails, with ErrIllegalVersionFormat and without a version, exactly
\* when the text before the first "-" or "+" is not one, two or three
\* non-negative integers separated by "."; otherwise it returns a version.
C5_ParseFailsIffBadNumbers ==
    pc = "done" =>
        /\ result.err = ErrIllegalVersionFormat
               <=> ~ValidNumericSegment(NumericSegment(raw))
        /\ result.err \in {NoError, ErrIllegalVersionFormat}
        /\ result.err = NoError <=> result.v # Nil

\* C5, its case: four integers are refused.
C5_Witness ==
    /\ pc = "done"
    /\ result.err = ErrIllegalVersionFormat
    /\ LET comps == Split(NumericSegment(raw), ".") IN
           Len(comps) = 4 /\ \A i \in 1..4 : IsNonNegativeInteger(comps[i])

\* C6: with equal numbers and pre-releases that agree at every position both
\* have, a is less than b exactly when a has more pre-release identifiers.
C6_LongerPreReleaseIsLess ==
    (pc = "done" /\ SameNumbers(a, b)
        /\ AgreeOverShorter(a.preRelease, b.preRelease))
    => (lt.ab <=> Len(a.preRelease) > Len(b.preRelease))

\* C7: Less does not read the metadata: putting any other metadata on a and
\* on b leaves the result of Less as it is.
C7_MetadataNotCompared ==
    pc = "done" =>
        \A m1 \in MetaVariants \cup {b.metadata} :
        \A m2 \in MetaVariants \cup {a.metadata} :
            Less([a EXCEPT !.metadata = m1], [b EXCEPT !.metadata = m2]) = lt.ab

\* C7, its case: equal numbers and pre-releases, different metadata.
C7_Witness ==
    /\ pc = "done"
    /\ SameNumbers(a, b)
    /\ a.preRelease = b.preRelease /\ Len(a.preRelease) = 2
    /\ a.metadata # <<>> /\ b.metadata = <<>>
    /\ ~lt.ab /\ ~lt.ba

\* C8: validID returns the letters, digits and hyphens of the token in their
\* order; where numeric is set and they are one or more digits, without the
\* leading zeros but never empty; unchanged in every other case.
C8_SanitizerResult ==
    pc = "done" =>
        LET kept == Retained(token) IN
        IF numeric /\ Len(kept) >= 1 /\ AllDigits(kept)
        THEN IsZeroStripped(out, kept)
        ELSE out = kept

\* C8, its case: characters were dropped and leading zeros removed.
C8_Witness ==
    /\ pc = "done"
    /\ numeric
    /\ Retained(token) # token
    /\ Len(out) < Len(Retained(token))

\* C9: with equal numbers, the first position at which the pre-releases
\* differ decides Less: by value if both elements are integers, by string
\* comparison otherwise; equal elements before it are passed over.
C9_FirstDifferenceDecides ==
    (pc = "done" /\ SameNumbers(a, b)) =>
        \A k \in 1..Len(a.preRelease) :
            (/\ k <= Len(b.preRelease)
             /\ a.preRelease[k] # b.preRelease[k]
             /\ \A i \in 1..(k - 1) : a.preRelease[i] = b.preRelease[i])
            => lt.ab = DecidesLess(a.preRelease[k], b.preRelease[k])

\* C10: Parse takes the metadata after the first "+" and the pre-release
\* between the first "-" and that "+", so a "-" after the first "+" stays in
\* the metadata; the version is New of the numbers, the pre-release tokens,
\* "+" and the metadata tokens, an empty segment giving no tokens.
C10_SegmentsSplitAtFirstPlus ==
    (pc = "done" /\ result.err = NoError) =>
        LET nums == NumbersOf(NumericSegment(raw))
            pre  == TokensOf(PreReleaseSegment(raw))
            meta == TokensOf(MetadataSegment(raw))
        IN  /\ result.v = New(nums[1], nums[2], nums[3],
                              pre \o <<Metadata>> \o meta)
            /\ (Index(raw, "+") # 0
                  /\ Index(SubSeq(raw, 1, Index(raw, "+") - 1), "-") = 0)
               => result.v.preRelease = <<>>

\* C10, its case: a "-" after the "+" and none before it.
C10_Witness ==
    /\ pc = "done"
    /\ result.err = NoError
    /\ result.v.preRelease = <<>>
    /\ \E i \in 1..Len(result.v.metadata) :
           Index(result.v.metadata[i], "-") # 0

=============================================================================
